---------------------------- MODULE Spec2Model ----------------------------
(***************************************************************************)
(* Data Insighter (src/main.py): a Streamlit script.  Every user-interface *)
(* event re-runs the script from its first line; the script's locals live  *)
(* for one run, the widgets' values and st.session_state live for the      *)
(* session.  A run is modelled step by step (pc), the events between runs. *)
(***************************************************************************)
EXTENDS Integers, Sequences, FiniteSets, TLC

\* ------------------------------------------------------------- bounds
MaxCols == 2        \* columns of an uploaded table
MaxRows == 2        \* rows of an uploaded table
MaxClicks == 2      \* clicks of the "Ask AI" button in one session
MaxTokens == 6      \* comma-separated tokens in a chart-suggestion answer
MaxWords == 12      \* words of a summary that is wrapped
MaxOver == 2        \* characters a chat answer may have beyond ChatLimit

\* ---------------------------------------------------- program constants
ChatLimit == 500    \* chat_response.text[:500]
WrapWidth == 120    \* textwrap.wrap(summary_text, width=120)
WrapLines == 10     \* [:10]
GridMax == 5        \* charts[:5]
GridCols == 3       \* st.columns(3)
MinViz == 5         \* len(viz_types) < 5

\* ---------------------------------------------------------------- texts
\* A text is a sequence of characters (one-character strings).
Letters == <<"a", "b", "c">>

\* A text of n letters.
Text(n) == [i \in 1..n |-> Letters[(i % Len(Letters)) + 1]]

NoInsights ==
  <<"N","o"," ","i","n","s","i","g","h","t","s"," ",
    "g","e","n","e","r","a","t","e","d",".">>

NoResponse == <<"N","o"," ","r","e","s","p","o","n","s","e",".">>

\* ---------------------------------------------------------------- tables
\* The missing value of a cell; 1 stands for any value that is present.
NaN == 0
Columns == 1..MaxCols
Cells == {NaN, 1}
Rows == [Columns -> Cells]

SeqsUpTo(S, n) == UNION {[1..k -> S] : k \in 0..n}

Tables == SeqsUpTo(Rows, MaxRows)

NoFile == [kind |-> "none"]
BadFile == [kind |-> "unparsable"]
GoodFiles == {[kind |-> "table", table |-> t] : t \in Tables}
Files == {BadFile} \cup GoodFiles

\* A table whose first row is complete and whose other rows miss a value.
SampleTable ==
  [i \in 1..MaxRows |-> [c \in Columns |-> IF i > 1 /\ c = MaxCols THEN NaN ELSE 1]]

\* The files uploaded in a whole session.
Uploads == {BadFile, [kind |-> "table", table |-> SampleTable]}

\* The column list in file order: df.columns.tolist().
AllColumns == [i \in 1..MaxCols |-> i]

Range(s) == {s[i] : i \in DOMAIN s}

\* The values a multiselect over the columns can hold: the chosen columns,
\* each once, in the order they were chosen.
Selections ==
  {s \in SeqsUpTo(Columns, MaxCols) : \A i, j \in DOMAIN s : i # j => s[i] # s[j]}

EmptyFrame == [columns |-> <<>>, rows |-> <<>>]

\* pd.read_csv / pd.read_excel of a parsable file: the rows with their index
\* labels 0, 1, ...
read_csv(f) ==
  [columns |-> AllColumns,
   rows |-> [i \in DOMAIN f.table |-> [idx |-> i - 1, cell |-> f.table[i]]]]

HasNaN(r) == \E c \in DOMAIN r.cell : r.cell[c] = NaN

\* Mutant of dropna: how="all", a row goes only when every cell is missing.
dropna_all(d) ==
  [columns |-> d.columns,
   rows |-> SelectSeq(d.rows, LAMBDA r : \E c \in DOMAIN r.cell : r.cell[c] # NaN)]

\* df.dropna(inplace=True): how="any", axis=0.
dropna(d) ==
  [columns |-> d.columns,
   rows |-> SelectSeq(d.rows, LAMBDA r : ~HasNaN(r))]

\* df[selected_columns]
getitem(d, cols) ==
  [columns |-> cols,
   rows |-> [i \in DOMAIN d.rows |->
               [idx |-> d.rows[i].idx,
                cell |-> [c \in Range(cols) |-> d.rows[i].cell[c]]]]]

\* Mutant of select_columns: the selection is applied even when it is empty.
select_columns_unguarded(d, sel) == getitem(d, sel)

\* if selected_columns: df = df[selected_columns]
select_columns(d, sel) == IF sel # <<>> THEN getitem(d, sel) ELSE d

\* --------------------------------------------------------- str methods
Whitespace == {" ", "\n", "\t"}

Upper == <<"A","B","C","D","E","F","G","H","I","J","K","L","M",
           "N","O","P","Q","R","S","T","U","V","W","X","Y","Z">>

Lower == <<"a","b","c","d","e","f","g","h","i","j","k","l","m",
           "n","o","p","q","r","s","t","u","v","w","x","y","z">>

\* str.lower(), one character
lower_char(c) ==
  IF \E k \in 1..26 : Upper[k] = c
    THEN Lower[CHOOSE k \in 1..26 : Upper[k] = c]
    ELSE c

\* str.lower()
lower(s) == [i \in DOMAIN s |-> lower_char(s[i])]

\* str.strip(): the text without its leading and trailing whitespace
strip(s) ==
  LET keep == {i \in DOMAIN s : s[i] \notin Whitespace}
  IN  IF keep = {} THEN <<>>
      ELSE LET lo == CHOOSE i \in keep : \A j \in keep : i <= j
               hi == CHOOSE i \in keep : \A j \in keep : j <= i
           IN  SubSeq(s, lo, hi)

\* str.split(sep) for a one-character separator: the fields between the
\* separators, empty fields included; the empty text has one empty field.
split(s, sep) ==
  LET at == {i \in DOMAIN s : s[i] = sep}
      n == Cardinality(at)
      \* position of the k-th separator; 0 and Len(s)+1 close the ends
      pos(k) == IF k = 0 THEN 0
                ELSE IF k = n + 1 THEN Len(s) + 1
                ELSE CHOOSE p \in at : Cardinality({q \in at : q < p}) = k - 1
  IN  [k \in 1..(n + 1) |-> SubSeq(s, pos(k - 1) + 1, pos(k) - 1)]

RECURSIVE join(_, _)
\* sep.join(parts)
join(parts, sep) ==
  IF parts = <<>> THEN <<>>
  ELSE IF Len(parts) = 1 THEN parts[1]
  ELSE parts[1] \o sep \o join(Tail(parts), sep)

\* s[:n]
Take(s, n) == SubSeq(s, 1, IF Len(s) < n THEN Len(s) ELSE n)

\* ------------------------------------------------- Visualization Advisor
Pie == <<"p","i","e">>
Bar == <<"b","a","r">>
Line == <<"l","i","n","e">>
Scatter == <<"s","c","a","t","t","e","r">>
Histogram == <<"h","i","s","t","o","g","r","a","m">>
Geographic == <<"G","e","o","g","r","a","p","h","i","c">>

\* ["pie", "bar", "line", "scatter", "histogram"], line 87
ChartKinds == <<Pie, Bar, Line, Scatter, Histogram>>

\* ["bar", "line", "pie", "scatter", "histogram"][:5], line 89
DefaultViz == Take(<<Bar, Line, Pie, Scatter, Histogram>>, 5)

\* [v.strip().lower() for v in text.split(",") if v.strip().lower() in [...]]
valid_tokens(text) ==
  LET fields == split(text, ",")
      norm == [k \in DOMAIN fields |-> lower(strip(fields[k]))]
  IN  SelectSeq(norm, LAMBDA v : v \in Range(ChartKinds))

\* lines 87-89: the filtered tokens, or the default list when fewer than five
viz_types_of(text) ==
  IF Len(valid_tokens(text)) < MinViz THEN DefaultViz ELSE valid_tokens(text)

\* Answers the model may give to the chart-suggestion prompt: n tokens joined
\* by ",", written the way a model writes them (" Bar"), with an unknown kind
\* in front, or one kind repeated.
Capitalized(tok) == <<Upper[CHOOSE k \in 1..26 : Lower[k] = tok[1]]>> \o Tail(tok)

Cycle(n) == [i \in 1..n |-> <<" ">> \o Capitalized(ChartKinds[((i - 1) % Len(ChartKinds)) + 1])]

WithUnknown(n) == IF n = 0 THEN <<>> ELSE <<Geographic>> \o Cycle(n - 1)

Repeated(n) == [i \in 1..n |-> Bar]

AdvisorTexts ==
  {<<>>} \cup {join(Cycle(n), <<",">>) : n \in (MinViz - 1)..MaxTokens}
    \cup {join(WithUnknown(MaxTokens), <<",">>), join(Repeated(MinViz), <<",">>)}

\* What model.generate_content can come to: an exception, a response object
\* without a text attribute, or a response with a text.
Raised == [kind |-> "raised"]
NoText == [kind |-> "notext"]
NoCall == [kind |-> "nocall"]
WithText(t) == [kind |-> "text", text |-> t]

\* hasattr(response, "text")
hasattr_text(r) == r.kind = "text"

\* ---------------------------------------------------------- Chart Renderer
\* st.selectbox(label, df.columns, key=...): its value is the first option
\* until the user picks another; the keys of one run must differ.
selectbox(d) == d.columns[1]

\* The widget keys and the figure of one pass of the loop, lines 100-117.
widget_keys(viz) ==
  IF viz = Pie THEN {"pie"}
  ELSE IF viz = Bar THEN {"bar_x", "bar_y"}
  ELSE IF viz = Line THEN {"line_x", "line_y"}
  ELSE IF viz = Scatter THEN {"scatter_x", "scatter_y"}
  ELSE IF viz = Histogram THEN {"hist"}
  ELSE {}

figure(viz, d) ==
  IF viz \in {Pie, Histogram}
    THEN [kind |-> viz, x |-> selectbox(d), y |-> 0]
    ELSE [kind |-> viz, x |-> selectbox(d), y |-> selectbox(d)]

RECURSIVE render_loop(_, _, _, _)
\* for viz in viz_types: ... charts.append(fig).  A selectbox whose key is
\* already used in this run raises (Streamlit's duplicate widget key), and
\* the run ends there with the charts collected so far.
render_loop(viz, d, keys, charts) ==
  IF viz = <<>> THEN [ok |-> TRUE, charts |-> charts]
  ELSE IF widget_keys(Head(viz)) \cap keys # {}
    THEN [ok |-> FALSE, charts |-> charts]
  ELSE render_loop(Tail(viz), d, keys \cup widget_keys(Head(viz)),
                   Append(charts, figure(Head(viz), d)))

\* ------------------------------------------------------ Insight Summarizer
SummaryTexts == {<<>>, <<"u","p","\n","1","0","%">>}

\* line 132
summary_text_of(r) == IF hasattr_text(r) THEN r.text ELSE NoInsights

\* ------------------------------------------------------------ grid, export
Min(a, b) == IF a < b THEN a ELSE b

\* lines 141-143: charts[:5], figure i in column i % 3 under key worksheet_i
grid_of(charts) ==
  [i \in 1..Len(Take(charts, GridMax)) |->
     [col |-> (i - 1) % GridCols, key |-> i - 1, fig |-> charts[i]]]

\* lines 149-153: chart_<i>.png holds figure i
chart_images_of(charts) ==
  [i \in 1..Len(charts) |-> [path |-> i - 1, image |-> charts[i]]]

\* generate_pdf, lines 24-43: the title and one text line per line of the
\* summary
generate_pdf(text) ==
  [file_name |-> "Business_Report.pdf",
   title |-> "Business Report - Data Insights",
   lines |-> split(text, "\n")]

NoPdf == [file_name |-> "none"]

\* ------------------------------------------------------- textwrap.wrap
\* textwrap.wrap(text, width) with the library's defaults, for texts without
\* tabs and hyphens: whitespace becomes blanks, the text is cut into chunks
\* (runs of blanks, runs of other characters), and the chunks are laid out
\* line by line.
munge_whitespace(t) == [i \in DOMAIN t |-> IF t[i] \in Whitespace THEN " " ELSE t[i]]

IsBlank(chunk) == \A i \in DOMAIN chunk : chunk[i] = " "

\* The last position of the run of like characters that starts at i.
run_end(t, i) ==
  IF \E j \in (i + 1)..Len(t) : (t[j] = " ") # (t[i] = " ")
    THEN (CHOOSE j \in (i + 1)..Len(t) :
            /\ (t[j] = " ") # (t[i] = " ")
            /\ \A k \in (i + 1)..(j - 1) : (t[k] = " ") = (t[i] = " ")) - 1
    ELSE Len(t)

RECURSIVE chunks_from(_, _)
chunks_from(t, i) ==
  IF i > Len(t) THEN <<>>
  ELSE <<SubSeq(t, i, run_end(t, i))>> \o chunks_from(t, run_end(t, i) + 1)

RECURSIVE fill(_, _, _)
\* How many of the leading chunks fit: while cur_len + l <= width.
fill(chunks, cur_len, width) ==
  IF chunks # <<>> /\ cur_len + Len(Head(chunks)) <= width
    THEN 1 + fill(Tail(chunks), cur_len + Len(Head(chunks)), width)
    ELSE 0

RECURSIVE TotalLen(_)
TotalLen(chunks) ==
  IF chunks = <<>> THEN 0 ELSE Len(Head(chunks)) + TotalLen(Tail(chunks))

RECURSIVE concat(_)
\* "".join(chunks)
concat(chunks) == IF chunks = <<>> THEN <<>> ELSE Head(chunks) \o concat(Tail(chunks))

DropFirst(s, n) == SubSeq(s, n + 1, Len(s))

RECURSIVE wrap_chunks(_, _, _)
\* TextWrapper._wrap_chunks: one line per pass.
wrap_chunks(chunks0, lines, width) ==
  IF chunks0 = <<>> THEN lines
  ELSE
    LET \* a blank chunk at the start of a line that is not the first is dropped
        chunks == IF IsBlank(Head(chunks0)) /\ lines # <<>>
                    THEN Tail(chunks0) ELSE chunks0
        n == fill(chunks, 0, width)
        fitted == SubSeq(chunks, 1, n)
        after == DropFirst(chunks, n)
        cur_len == TotalLen(fitted)
        \* _handle_long_word: a chunk wider than the line is cut to what is left
        long == after # <<>> /\ Len(Head(after)) > width
        space_left == width - cur_len
        cur_line == IF long THEN Append(fitted, Take(Head(after), space_left))
                    ELSE fitted
        rest == IF long
                  THEN <<DropFirst(Head(after), space_left)>> \o Tail(after)
                  ELSE after
        \* a blank chunk at the end of the line is dropped
        kept == IF cur_line # <<>> /\ IsBlank(cur_line[Len(cur_line)])
                  THEN SubSeq(cur_line, 1, Len(cur_line) - 1) ELSE cur_line
    IN  wrap_chunks(rest, IF kept # <<>> THEN Append(lines, concat(kept)) ELSE lines,
                    width)

wrap(text, width) == wrap_chunks(chunks_from(munge_whitespace(text), 1), <<>>, width)

\* Mutant of wrapped_text_of: the [:10] is missing.
wrapped_text_uncut(text) == wrap(text, WrapWidth)

\* line 157
wrapped_text_of(text) == Take(wrap(text, WrapWidth), WrapLines)

\* ------------------------------------------------------------ Chat Assistant
\* Mutant of chatbot_response: the [:500] is missing.
chatbot_response_uncut(r) == IF hasattr_text(r) THEN r.text ELSE NoResponse

\* line 191
chatbot_response(r) == IF hasattr_text(r) THEN Take(r.text, ChatLimit) ELSE NoResponse

\* Mutant of chat_append: the entry is put in front.
chat_insert_front(h, q, resp) == <<[query |-> q, response |-> resp]>> \o h

\* line 200
chat_append(h, q, resp) == Append(h, [query |-> q, response |-> resp])

Reverse(s) == [i \in 1..Len(s) |-> s[Len(s) + 1 - i]]

\* lines 203-206: for chat in reversed(chat_history)
chat_display(h) == Reverse(h)

Queries == {<<>>, <<"q","1">>, <<"q","2">>}

ChatTexts == {Text(2)}

\* ------------------------------------------------------------------ state
VARIABLES
  \* the session: widget values and st.session_state
  uploaded_file,    \* st.file_uploader
  multiselect,      \* the value of the column multiselect
  user_query,       \* st.text_input
  clicked,          \* the button whose click started this run
  session_state,    \* st.session_state.chat_history ([] while unset)
  \* one run of the script
  pc,               \* the step the run is at, or how it ended
  ran,              \* the steps this run has executed
  rendered,         \* the widgets this run has put on the page
  error,            \* the message of st.error, or the exception shown
  df,
  gemini_response,
  viz_types,
  charts,
  summary_response,
  summary_text,
  grid,             \* the figures shown in the worksheet grid
  chart_images,
  wrapped_text,
  pdf,              \* the document offered by st.download_button
  chat_response,
  chat_shown,       \* the chat entries written to the page, top first
  \* history, for stating the properties
  clicks,           \* clicks of "Ask AI" so far
  submitted         \* the queries the chat handler answered, in order

session == <<uploaded_file, multiselect, user_query, clicked, session_state>>

locals ==
  <<pc, ran, rendered, error, df, gemini_response, viz_types, charts,
    summary_response, summary_text, grid, chart_images, wrapped_text, pdf,
    chat_response, chat_shown>>

vars == <<session, locals, clicks, submitted>>

Halted == pc \in {"done", "stopped", "crashed"}

\* The locals of a run that has executed nothing yet.
Fresh ==
  /\ ran = {}
  /\ rendered = {}
  /\ error = "none"
  /\ df = EmptyFrame
  /\ gemini_response = NoCall
  /\ viz_types = <<>>
  /\ charts = <<>>
  /\ summary_response = NoCall
  /\ summary_text = <<>>
  /\ grid = <<>>
  /\ chart_images = <<>>
  /\ wrapped_text = <<>>
  /\ pdf = NoPdf
  /\ chat_response = NoCall
  /\ chat_shown = <<>>

\* No file is uploaded when the session starts: the script has run once and
\* skipped everything under "if uploaded_file:".
Init ==
  /\ uploaded_file = NoFile
  /\ multiselect = AllColumns
  /\ user_query = <<>>
  /\ clicked = "none"
  /\ session_state = <<>>
  /\ pc = "done"
  /\ Fresh
  /\ clicks = 0
  /\ submitted = <<>>

\* Streamlit re-runs the script from the top: the locals start afresh.
Rerun ==
  /\ pc' = "load"
  /\ ran' = {}
  /\ rendered' = {}
  /\ error' = "none"
  /\ df' = EmptyFrame
  /\ gemini_response' = NoCall
  /\ viz_types' = <<>>
  /\ charts' = <<>>
  /\ summary_response' = NoCall
  /\ summary_text' = <<>>
  /\ grid' = <<>>
  /\ chart_images' = <<>>
  /\ wrapped_text' = <<>>
  /\ pdf' = NoPdf
  /\ chat_response' = NoCall
  /\ chat_shown' = <<>>

\* ----------------------------------------------------------------- events
\* line 52: the user uploads a file
Upload(f) ==
  /\ Halted
  /\ uploaded_file' = f
  /\ clicked' = "none"
  /\ UNCHANGED <<multiselect, user_query, session_state, clicks, submitted>>
  /\ Rerun

\* line 52: the user removes the uploaded file
ClearFile ==
  /\ Halted
  /\ uploaded_file # NoFile
  /\ uploaded_file' = NoFile
  /\ clicked' = "none"
  /\ UNCHANGED <<multiselect, user_query, session_state, clicks, submitted>>
  /\ Rerun

\* line 65: the user changes the column selection
ChooseColumns(sel) ==
  /\ Halted
  /\ "multiselect" \in rendered
  /\ multiselect' = sel
  /\ clicked' = "none"
  /\ UNCHANGED <<uploaded_file, user_query, session_state, clicks, submitted>>
  /\ Rerun

\* line 145: the user clicks "Download Report as PDF"
ClickDownload ==
  /\ Halted
  /\ "download" \in rendered
  /\ clicked' = "download"
  /\ UNCHANGED <<uploaded_file, multiselect, user_query, session_state, clicks,
                 submitted>>
  /\ Rerun

\* lines 195-197: the user clicks "Ask AI" with q in the query field
ClickAskAI(q) ==
  /\ Halted
  /\ "ask" \in rendered
  /\ clicks < MaxClicks
  /\ user_query' = q
  /\ clicked' = "ask"
  /\ clicks' = clicks + 1
  /\ UNCHANGED <<uploaded_file, multiselect, session_state, submitted>>
  /\ Rerun

\* ------------------------------------------------------ the script's steps
\* Mutant of load_outcome: st.stop() is missing after the error message.
load_outcome_no_stop(f) ==
  IF f.kind = "table"
    THEN [pc |-> "clean", df |-> read_csv(f), error |-> "none"]
    ELSE [pc |-> "clean", df |-> EmptyFrame, error |-> "Error loading file"]

\* lines 55-60: the parsed table, or the error message and st.stop()
load_outcome(f) ==
  IF f.kind = "table"
    THEN [pc |-> "clean", df |-> read_csv(f), error |-> "none"]
    ELSE [pc |-> "stopped", df |-> EmptyFrame, error |-> "Error loading file"]

\* lines 54-60.  A run that does not reach the multiselect leaves it off the
\* page, and Streamlit then forgets its value.
Load ==
  /\ pc = "load"
  /\ IF uploaded_file = NoFile
       THEN /\ pc' = "done"
            /\ UNCHANGED <<df, error, ran>>
            /\ multiselect' = AllColumns
       ELSE /\ pc' = load_outcome(uploaded_file).pc
            /\ df' = load_outcome(uploaded_file).df
            /\ error' = load_outcome(uploaded_file).error
            /\ ran' = ran \cup {"load"}
            /\ multiselect' = IF load_outcome(uploaded_file).pc = "stopped"
                                THEN AllColumns ELSE multiselect
  /\ UNCHANGED <<uploaded_file, user_query, clicked, session_state, rendered,
                 gemini_response, viz_types, charts, summary_response,
                 summary_text, grid, chart_images, wrapped_text, pdf,
                 chat_response, chat_shown, clicks, submitted>>

\* lines 62-68
CleanAndSelect ==
  /\ pc = "clean"
  /\ df' = select_columns(dropna(df), multiselect)
  /\ rendered' = rendered \cup {"multiselect"}
  /\ ran' = ran \cup {"dropna", "select"}
  /\ pc' = "advise"
  /\ UNCHANGED <<session, error, gemini_response, viz_types, charts,
                 summary_response, summary_text, grid, chart_images,
                 wrapped_text, pdf, chat_response, chat_shown, clicks, submitted>>

\* Mutant of advise_outcome: a response without text gets the default list.
advise_outcome_soft(r) ==
  IF r.kind = "raised"
    THEN [pc |-> "crashed", viz_types |-> <<>>, error |-> "exception"]
  ELSE IF hasattr_text(r)
    THEN [pc |-> "render", viz_types |-> viz_types_of(r.text), error |-> "none"]
  ELSE [pc |-> "render", viz_types |-> DefaultViz, error |-> "none"]

\* lines 84-92: an exception ends the run; a response without text shows the
\* error and stops the run; a text gives the chart kinds
advise_outcome(r) ==
  IF r.kind = "raised"
    THEN [pc |-> "crashed", viz_types |-> <<>>, error |-> "exception"]
  ELSE IF hasattr_text(r)
    THEN [pc |-> "render", viz_types |-> viz_types_of(r.text), error |-> "none"]
  ELSE [pc |-> "stopped", viz_types |-> <<>>,
        error |-> "Error: AI did not return a valid response."]

Advise(r) ==
  /\ pc = "advise"
  /\ gemini_response' = r
  /\ pc' = advise_outcome(r).pc
  /\ viz_types' = advise_outcome(r).viz_types
  /\ error' = advise_outcome(r).error
  /\ ran' = ran \cup {"advise"}
  /\ UNCHANGED <<session, rendered, df, charts, summary_response, summary_text,
                 grid, chart_images, wrapped_text, pdf, chat_response,
                 chat_shown, clicks, submitted>>

\* lines 96-121
Render ==
  /\ pc = "render"
  /\ charts' = render_loop(viz_types, df, {}, <<>>).charts
  /\ pc' = IF render_loop(viz_types, df, {}, <<>>).ok THEN "summary" ELSE "crashed"
  /\ error' = IF render_loop(viz_types, df, {}, <<>>).ok THEN error ELSE "exception"
  /\ ran' = ran \cup {"render"}
  /\ UNCHANGED <<session, rendered, df, gemini_response, viz_types,
                 summary_response, summary_text, grid, chart_images,
                 wrapped_text, pdf, chat_response, chat_shown, clicks, submitted>>

\* lines 129-133
Summarize(r) ==
  /\ pc = "summary"
  /\ summary_response' = r
  /\ ran' = ran \cup {"summary"}
  /\ IF r.kind = "raised"
       THEN /\ pc' = "crashed"
            /\ error' = "exception"
            /\ UNCHANGED summary_text
       ELSE /\ pc' = "grid"
            /\ summary_text' = summary_text_of(r)
            /\ UNCHANGED error
  /\ UNCHANGED <<session, rendered, df, gemini_response, viz_types, charts,
                 grid, chart_images, wrapped_text, pdf, chat_response,
                 chat_shown, clicks, submitted>>

\* lines 136-145: the worksheet grid and the download button
Grid ==
  /\ pc = "grid"
  /\ grid' = grid_of(charts)
  /\ rendered' = rendered \cup {"download"}
  /\ ran' = ran \cup {"grid"}
  /\ pc' = "export"
  /\ UNCHANGED <<session, error, df, gemini_response, viz_types, charts,
                 summary_response, summary_text, chart_images, wrapped_text,
                 pdf, chat_response, chat_shown, clicks, submitted>>

\* lines 145-179: only in the run the download button started
Export ==
  /\ pc = "export"
  /\ IF clicked = "download"
       THEN /\ chart_images' = chart_images_of(charts)
            /\ wrapped_text' = wrapped_text_of(summary_text)
            /\ pdf' = generate_pdf(summary_text)
            /\ ran' = ran \cup {"export"}
       ELSE UNCHANGED <<chart_images, wrapped_text, pdf, ran>>
  /\ pc' = "chat"
  /\ UNCHANGED <<session, rendered, error, df, gemini_response, viz_types,
                 charts, summary_response, summary_text, grid, chat_response,
                 chat_shown, clicks, submitted>>

\* lines 185-206.  r is the answer to the chat prompt, NoCall when the
\* handler does not ask.
Chat(r) ==
  /\ pc = "chat"
  /\ (r = NoCall) <=> ~(clicked = "ask" /\ user_query # <<>>)
  /\ rendered' = rendered \cup {"ask"}
  /\ chat_response' = r
  /\ ran' = ran \cup {"chat"}
  /\ IF r = NoCall
       THEN /\ pc' = "done"
            /\ chat_shown' = chat_display(session_state)
            /\ UNCHANGED <<session_state, submitted, error>>
       ELSE IF r.kind = "raised"
         THEN /\ pc' = "crashed"
              /\ error' = "exception"
              /\ UNCHANGED <<session_state, submitted, chat_shown>>
         ELSE /\ pc' = "done"
              /\ session_state' =
                   chat_append(session_state, user_query, chatbot_response(r))
              /\ chat_shown' =
                   chat_display(chat_append(session_state, user_query,
                                            chatbot_response(r)))
              /\ submitted' = Append(submitted, user_query)
              /\ UNCHANGED error
  /\ UNCHANGED <<uploaded_file, multiselect, user_query, clicked, df,
                 gemini_response, viz_types, charts, summary_response,
                 summary_text, grid, chart_images, wrapped_text, pdf, clicks>>

AdvisorResponses == {Raised, NoText} \cup {WithText(t) : t \in AdvisorTexts}

SummaryResponses == {Raised, NoText} \cup {WithText(t) : t \in SummaryTexts}

ChatResponses == {Raised, NoText, NoCall} \cup {WithText(t) : t \in ChatTexts}

Next ==
  \/ \E f \in Uploads : Upload(f)
  \/ ClearFile
  \/ \E sel \in Selections : ChooseColumns(sel)
  \/ ClickDownload
  \/ \E q \in Queries : ClickAskAI(q)
  \/ Load
  \/ CleanAndSelect
  \/ \E r \in AdvisorResponses : Advise(r)
  \/ Render
  \/ \E r \in SummaryResponses : Summarize(r)
  \/ Grid
  \/ Export
  \/ \E r \in ChatResponses : Chat(r)

Spec == Init /\ [][Next]_vars

\* ------------------------------------------------ the stages on their own
\* The start of a run: file f uploaded, sel in the multiselect, and the run
\* started by the button click.
RunStart(f, sel, q, click, n) ==
  /\ uploaded_file = f
  /\ multiselect = sel
  /\ user_query = q
  /\ clicked = click
  /\ session_state = <<>>
  /\ pc = "load"
  /\ Fresh
  /\ clicks = n
  /\ submitted = <<>>

SampleFile == [kind |-> "table", table |-> SampleTable]

\* The Data Loader over every table and every selection.
InitLoad == \E f \in Files, sel \in Selections : RunStart(f, sel, <<>>, "none", 0)

NextLoad == Load \/ CleanAndSelect

SpecLoad == InitLoad /\ [][NextLoad]_vars

\* A run started by "Ask AI", over answers of every length up to and beyond
\* the limit.
ChatbotResponses ==
  {NoText} \cup {WithText(Text(n)) : n \in 0..(ChatLimit + MaxOver)}

InitChatbot == RunStart(SampleFile, AllColumns, <<"q","1">>, "ask", 1)

NextChatbot ==
  \/ Load
  \/ CleanAndSelect
  \/ Advise(WithText(<<>>))
  \/ Render
  \/ Summarize(NoText)
  \/ Grid
  \/ Export
  \/ \E r \in ChatbotResponses : Chat(r)

SpecChatbot == InitChatbot /\ [][NextChatbot]_vars

\* A run started by the download button, over summaries of k words of w
\* characters each, separated by blanks or line breaks, and of two words of
\* different lengths.
WordLens ==
  {1, WrapWidth \div 2 - 1, WrapWidth \div 2, WrapWidth \div 2 + 1,
   WrapWidth - 1, WrapWidth, WrapWidth + 1, 2 * WrapWidth + 10}

Separators == {<<" ">>, <<"\n">>, <<" ", " ">>}

WrapTexts ==
  {join([i \in 1..k |-> Text(w)], sep) : k \in 0..MaxWords, w \in WordLens,
                                          sep \in Separators}
    \cup {Text(1) \o sep \o join([i \in 1..k |-> Text(w)], sep) \o sep :
            k \in {MaxWords}, w \in WordLens, sep \in Separators}
    \cup {Text(v) \o sep \o Text(w) : v \in WordLens, w \in WordLens,
                                       sep \in Separators}

WrapResponses == {WithText(t) : t \in WrapTexts}

InitWrap == RunStart(SampleFile, AllColumns, <<>>, "download", 0)

NextWrap ==
  \/ Load
  \/ CleanAndSelect
  \/ Advise(WithText(<<>>))
  \/ Render
  \/ \E r \in WrapResponses : Summarize(r)
  \/ Grid
  \/ Export
  \/ Chat(NoCall)

SpecWrap == InitWrap /\ [][NextWrap]_vars

\* ----------------------------------------------------------- properties
IsPrefix(a, b) == Len(a) <= Len(b) /\ \A i \in DOMAIN a : a[i] = b[i]

NonBlank(t) == SelectSeq(t, LAMBDA c : c \notin Whitespace)

\* C1: whatever text the model returns for the chart-suggestion prompt, the
\* list of chart kinds handed to the Chart Renderer has exactly five entries,
\* each one of pie, bar, line, scatter, histogram.
C1_FiveChartKinds ==
  gemini_response.kind = "text" =>
    /\ Len(viz_types) = 5
    /\ \A i \in DOMAIN viz_types : viz_types[i] \in {Pie, Bar, Line, Scatter, Histogram}

C3_LengthIsClicks ==
  (pc = "done" /\ "chat" \in ran) => Len(session_state) = clicks

\* C3, amended: the chat log holds one entry per click of "Ask AI" whose query
\* field was not empty and whose run reached the chat handler and got an
\* answer from the model, in the order of those clicks; a finished run shows
\* the log in reverse order; no step removes, reorders or changes an entry,
\* and the log grows by one entry exactly in such a run's chat handler.
C3_AppendOnlyLog ==
  /\ [](/\ Len(session_state) = Len(submitted)
        /\ Len(session_state) <= clicks
        /\ \A i \in DOMAIN session_state : session_state[i].query = submitted[i]
        /\ (pc = "done" /\ "chat" \in ran) =>
             /\ Len(chat_shown) = Len(session_state)
             /\ \A i \in DOMAIN chat_shown :
                  chat_shown[i] = session_state[Len(session_state) + 1 - i])
  /\ [][/\ IsPrefix(session_state, session_state')
        /\ Len(session_state') <= Len(session_state) + 1
        /\ (session_state' # session_state) <=>
             (/\ pc = "chat" /\ clicked = "ask" /\ user_query # <<>>
              /\ pc' = "done")
        /\ (session_state' # session_state) =>
             session_state'[Len(session_state')].query = user_query]_vars

C3_Witness ==
  /\ pc = "done"
  /\ clicks = 2
  /\ Len(session_state) = 2
  /\ session_state[1] # session_state[2]
  /\ chat_shown = <<session_state[2], session_state[1]>>

\* C4: when the summary response has no text or an empty text, the summary
\* displayed, and the summary written to the PDF, is "No insights generated.",
\* and the run goes on.
C4_PlaceholderSummary ==
  (\/ summary_response.kind = "notext"
   \/ summary_response.kind = "text" /\ summary_response.text = <<>>) =>
    /\ summary_text = NoInsights
    /\ pdf # NoPdf => pdf.lines = <<NoInsights>>
    /\ pc \notin {"stopped", "crashed"} \/ "grid" \in ran

\* C5: when parsing the uploaded file fails, the error message is shown and
\* the run halts: no row filtering, no column selection, no call to the
\* language model, no chart, no grid and no export happen in that run.
C5_LoadErrorHalts ==
  (uploaded_file = BadFile /\ pc # "load") =>
    /\ pc = "stopped"
    /\ error = "Error loading file"
    /\ ran = {"load"}
    /\ df = EmptyFrame
    /\ gemini_response = NoCall
    /\ summary_response = NoCall
    /\ chat_response = NoCall
    /\ viz_types = <<>>
    /\ charts = <<>>
    /\ grid = <<>>
    /\ chart_images = <<>>
    /\ pdf = NoPdf
    /\ chat_shown = <<>>

C5_Witness ==
  /\ uploaded_file = BadFile
  /\ pc = "stopped"
  /\ error = "Error loading file"
  /\ ran = {"load"}
  /\ session_state # <<>>

\* C6, as claimed: for every selection, the empty one included, the table
\* passed on holds exactly the selected columns.
C6_ExactlySelected ==
  "select" \in ran => Range(df.columns) = Range(multiselect)

\* C6, amended: for every selection that is not empty the table passed on
\* holds exactly the selected columns, in the order selected; with the empty
\* selection it keeps all the loaded columns.
C6_SelectedOrAll ==
  "select" \in ran =>
    /\ multiselect # <<>> =>
         /\ df.columns = multiselect
         /\ \A k \in DOMAIN df.rows : DOMAIN df.rows[k].cell = Range(multiselect)
    /\ multiselect = <<>> =>
         /\ df.columns = AllColumns
         /\ \A k \in DOMAIN df.rows : DOMAIN df.rows[k].cell = Columns

C6_Witness ==
  /\ "select" \in ran
  /\ Len(multiselect) = 1
  /\ df.columns = multiselect
  /\ df.rows # <<>>

\* C7: the table passed on has no missing value; a row of the upload is
\* removed exactly when it has a missing value in any column, retained or
\* not, and the rows kept are in their original order with their values.
C7_NoMissingValues ==
  "dropna" \in ran =>
    LET t == uploaded_file.table
        complete == {i \in DOMAIN t : \A c \in Columns : t[i][c] # NaN}
    IN  /\ \A k \in DOMAIN df.rows :
             \A c \in DOMAIN df.rows[k].cell : df.rows[k].cell[c] # NaN
        /\ {df.rows[k].idx + 1 : k \in DOMAIN df.rows} = complete
        /\ Len(df.rows) = Cardinality(complete)
        /\ \A k, l \in DOMAIN df.rows : k < l => df.rows[k].idx < df.rows[l].idx
        /\ \A k \in DOMAIN df.rows :
             \A c \in Range(df.columns) :
               df.rows[k].cell[c] = t[df.rows[k].idx + 1][c]

\* A row whose only missing value is in a column that is not retained is
\* removed, and the complete row after it is kept.
C7_Witness ==
  /\ "dropna" \in ran
  /\ Len(uploaded_file.table) = 2
  /\ multiselect = <<1>>
  /\ uploaded_file.table[1][1] # NaN
  /\ uploaded_file.table[1][2] = NaN
  /\ Len(df.rows) = 1
  /\ df.rows[1].idx = 1

\* C8: every response in the chat log has at most 500 characters; a returned
\* text of at most 500 characters is stored unchanged, a longer one is stored
\* as its first 500 characters, and an absent text as "No response.".
C8_ResponseAtMost500 ==
  /\ \A i \in DOMAIN session_state : Len(session_state[i].response) <= 500
  /\ (pc = "done" /\ chat_response.kind \in {"notext", "text"}) =>
       LET stored == session_state[Len(session_state)].response
       IN  IF chat_response.kind = "notext" THEN stored = NoResponse
           ELSE IF Len(chat_response.text) <= 500 THEN stored = chat_response.text
           ELSE /\ Len(stored) = 500
                /\ \A k \in 1..500 : stored[k] = chat_response.text[k]

C8_Witness ==
  /\ pc = "done"
  /\ chat_response.kind = "text"
  /\ Len(chat_response.text) > 500
  /\ Len(session_state) = 1
  /\ Len(session_state[1].response) = 500

\* C9: a run that reaches the Chart Renderer produces one chart per entry of
\* the advised list, collected in the order of the list; every collected chart
\* is shown in the grid and written by the export as the image named after
\* its position.
C9_OneChartPerKind ==
  "render" \in ran =>
    /\ Len(charts) = Len(viz_types)
    /\ \A i \in DOMAIN charts : charts[i].kind = viz_types[i]
    /\ "grid" \in ran =>
         /\ Len(grid) = Len(charts)
         /\ \A i \in DOMAIN grid : grid[i].fig = charts[i]
    /\ "export" \in ran =>
         /\ Len(chart_images) = Len(charts)
         /\ \A i \in DOMAIN chart_images :
              chart_images[i] = [path |-> i - 1, image |-> charts[i]]

\* C10: the wrapped summary has at most 10 lines of at most 120 characters
\* each; they are the first lines of the 120-column wrap of the summary, in
\* order, and so hold the summary's words in order.
C10_WrappedSummary ==
  "export" \in ran =>
    LET all == wrap(summary_text, 120)
    IN  /\ Len(wrapped_text) <= 10
        /\ \A i \in DOMAIN wrapped_text : Len(wrapped_text[i]) <= 120
        /\ Len(wrapped_text) = Min(10, Len(all))
        /\ \A i \in DOMAIN wrapped_text : wrapped_text[i] = all[i]
        /\ IsPrefix(NonBlank(concat(wrapped_text)), NonBlank(summary_text))
        /\ Len(wrapped_text) < 10 =>
             NonBlank(concat(wrapped_text)) = NonBlank(summary_text)

C10_Witness ==
  /\ "export" \in ran
  /\ Len(wrap(summary_text, 120)) > 10
  /\ Len(wrapped_text) = 10
  /\ \E i \in DOMAIN wrapped_text : Len(wrapped_text[i]) = 120

=============================================================================
